---------------------------- MODULE Spec2Model ----------------------------
(***************************************************************************)
(* A model of the wordle-solver repository: the interactive solver         *)
(* (solver.py) and the batch simulation (simulate_wordle.py).              *)
(*                                                                         *)
(* A word is a sequence of five one-character strings.  Sequences are      *)
(* 1-based here and 0-based in Python; `remaining`, `ai` and `gi` hold     *)
(* 1-based indices into possible_words.                                    *)
(*                                                                         *)
(* Entropy.  For a guess that splits n candidates into buckets of sizes    *)
(* c1..ck the sources compute e = SUM (c/n) * log2(n/c), which equals      *)
(* log2(n) - log2(K)/n with K = PRODUCT c^c.  All entropies compared in    *)
(* one call of best_entropy_guess share n, so e1 > e2 iff K1 < K2 and      *)
(* e1 = e2 iff K1 = K2.  The model carries the entropy as the integer -K   *)
(* and the initial best (-1 in the sources, below every entropy) as        *)
(* -(n^n) - 1.  For n <= 5 the IEEE-754 sums of the sources order exactly  *)
(* as K does, whatever the order of the buckets.                           *)
(***************************************************************************)
EXTENDS Naturals, Integers, Sequences, FiniteSets, TLC

VARIABLES
    prog,            \* which script runs: "solver", "simulate", or a unit under test
    allowed_words,   \* solver.py: allowed_words (list of words)
    possible_words,  \* both scripts: possible_words (list of words)
    words,           \* WordleGUI.words
    auto,            \* WordleGUI.auto
    pending,         \* number of root.after(300, self.autoplay) callbacks not yet run
    outcome,         \* the message box shown by the last operation, or "none"
    call,            \* the last call of best_entropy_guess: its argument and result
    ai,              \* simulate: index of the true answer of the current game
    remaining,       \* simulate: indices of the remaining candidates
    guesses,         \* simulate: rounds played in the current game
    game_feedbacks,  \* simulate: decoded feedback of each round
    game_words,      \* simulate: guessed word of each round
    results,         \* simulate: round count of each finished game
    pc,              \* simulate: position in the script
    guess,           \* unit under test: get_feedback's first argument
    answer,          \* unit under test: get_feedback's second argument
    fb,              \* unit under test: a feedback pattern
    code,            \* unit under test: a feedback code
    fb2,             \* unit under test: the pattern decoded from code
    code2,           \* unit under test: the code of the decoded pattern
    step             \* unit under test: what has been applied so far

vars == << prog, allowed_words, possible_words, words, auto, pending, outcome,
           call, ai, remaining, guesses, game_feedbacks, game_words, results,
           pc, guess, answer, fb, code, fb2, code2, step >>

guiVars == << allowed_words, words, auto, pending, outcome, call >>
simVars == << ai, remaining, guesses, game_feedbacks, game_words, results, pc >>
unitVars == << guess, answer, fb, code, fb2, code2, step >>

-----------------------------------------------------------------------------
(* Program constants *)

WordLen == 5

NumStates == 3

N_feedback == 243

MAX_GUESSES == 6

UInt8 == 256

(* Bounds of the model *)

NLetters == 3

MaxAllowed == 2

MaxAnswers == 2

MaxSimAnswers == 4

MaxPending == 1

-----------------------------------------------------------------------------
(* Values *)

None == "None"

NoWord == << >>

NoIndex == 0

NoCall == [made |-> FALSE]

NoPattern == << >>

NoCode == 0 - 1

RAISE == << "r", "a", "i", "s", "e" >>

ARISE == << "a", "r", "i", "s", "e" >>

ERASE == << "e", "r", "a", "s", "e" >>

MUMMY == << "m", "u", "m", "m", "y" >>

TooShort == << "r", "a", "t" >>

Dict == { RAISE, ARISE, ERASE, MUMMY }

GuiDict == { RAISE, ERASE, MUMMY }

Alphabet == { << "a", "b", "c", "d" >>[i] : i \in 1..NLetters }

UnitWords == [1..WordLen -> Alphabet]

Patterns == [1..WordLen -> 0..(NumStates - 1)]

AllCorrect == << 2, 2, 2, 2, 2 >>

Pos == 1..WordLen

RECURSIVE Pow(_, _)
Pow(b, e) == IF e = 0 THEN 1 ELSE b * Pow(b, e - 1)

Range(s) == { s[i] : i \in DOMAIN s }

Min(S) == CHOOSE x \in S : \A y \in S : x <= y

ListsUpTo(S, n) == UNION { [1..k -> S] : k \in 1..n }

-----------------------------------------------------------------------------
(* get_feedback: two passes over the five positions *)

FirstPass(g, a) ==
    [ feedback |-> [i \in Pos |-> IF g[i] = a[i] THEN 2 ELSE 0],
      answer_letters |-> [i \in Pos |-> IF g[i] = a[i] THEN None ELSE a[i]] ]

(* get_feedback's second pass without the removal of the matched letter *)
RECURSIVE SecondPassNoConsume(_, _, _, _)
SecondPassNoConsume(g, feedback, answer_letters, i) ==
    IF i > WordLen THEN feedback
    ELSE IF feedback[i] = 0 /\ g[i] \in Range(answer_letters)
         THEN SecondPassNoConsume(g, [feedback EXCEPT ![i] = 1], answer_letters, i + 1)
         ELSE SecondPassNoConsume(g, feedback, answer_letters, i + 1)

RECURSIVE SecondPass(_, _, _, _)
SecondPass(g, feedback, answer_letters, i) ==
    IF i > WordLen THEN feedback
    ELSE IF feedback[i] = 0 /\ g[i] \in Range(answer_letters)
         THEN LET k == Min({ j \in Pos : answer_letters[j] = g[i] })
              IN  SecondPass(g, [feedback EXCEPT ![i] = 1],
                             [answer_letters EXCEPT ![k] = None], i + 1)
         ELSE SecondPass(g, feedback, answer_letters, i + 1)

(* the body of get_feedback *)
two_passes(g, a) ==
    LET p == FirstPass(g, a)
    IN  SecondPass(g, p.feedback, p.answer_letters, 1)

(* get_feedback of every pair of words of Dict, evaluated once *)
feedback_of_dict == [g \in Dict |-> [a \in Dict |-> two_passes(g, a)]]

(* get_feedback; for words of Dict the value is read from feedback_of_dict,
   which holds what two_passes computes *)
get_feedback(g, a) ==
    IF g \in Dict /\ a \in Dict THEN feedback_of_dict[g][a] ELSE two_passes(g, a)

(* feedback_to_int: n += f * 3**(4-i), i counted from 0 *)
(* feedback_to_int with position 0 as the least significant digit *)
RECURSIVE feedback_to_int_lsb(_, _)
feedback_to_int_lsb(f, i) ==
    IF i > WordLen THEN 0
    ELSE f[i] * Pow(NumStates, i - 1) + feedback_to_int_lsb(f, i + 1)

RECURSIVE feedback_to_int_from(_, _)
feedback_to_int_from(f, i) ==
    IF i > WordLen THEN 0
    ELSE f[i] * Pow(NumStates, WordLen - i) + feedback_to_int_from(f, i + 1)

feedback_to_int(f) == feedback_to_int_from(f, 1)

(* fb_list = [(fb // 3**(4-i)) % 3 for i in range(5)] *)
fb_list(c) == [i \in Pos |-> (c \div Pow(NumStates, WordLen - i)) % NumStates]

(* The precomputed table, built once: feedback_table[gi, ai] =
   feedback_to_int(get_feedback(g, a)) stored in a uint8 cell.  It is held by
   word here, so that one table serves every possible_words list. *)
table_cells ==
    [g \in Dict |-> [a \in Dict |-> feedback_to_int(get_feedback(g, a)) % UInt8]]

(* feedback_table[gi, ai] *)
feedback_table(pw, gi, a_i) == table_cells[pw[gi]][pw[a_i]]

(* filter_words with the arguments of get_feedback exchanged *)
filter_words_swapped(ws, g, feedback) ==
    LET keep(w) == get_feedback(w, g) = feedback
    IN  SelectSeq(ws, keep)

(* filter_words *)
filter_words(ws, g, feedback) ==
    LET keep(w) == get_feedback(g, w) = feedback
    IN  SelectSeq(ws, keep)

-----------------------------------------------------------------------------
(* Entropy, carried as -K (see the head of the module) *)

RECURSIVE SelfPowerProduct(_)
SelfPowerProduct(buckets) ==
    IF DOMAIN buckets = {} THEN 1
    ELSE LET f == CHOOSE x \in DOMAIN buckets : TRUE
         IN  Pow(buckets[f], buckets[f])
               * SelfPowerProduct([x \in DOMAIN buckets \ {f} |-> buckets[x]])

(* best_entropy = -1 / best_e = -1: below the entropy of every guess *)
MinusOne(total) == 0 - Pow(total, total) - 1

(* entropy_for_guess with the sign of the sum reversed *)
entropy_negated(g, possible_answers) ==
    LET keys == { get_feedback(g, possible_answers[i]) : i \in DOMAIN possible_answers }
        buckets == [f \in keys |->
                      Cardinality({ i \in DOMAIN possible_answers :
                                      get_feedback(g, possible_answers[i]) = f })]
    IN  SelfPowerProduct(buckets)

(* solver.py entropy_for_guess; entropy_cache memoises this pure function
   and is cleared by reset, so a cached value is the computed one *)
entropy_for_guess(g, possible_answers) ==
    LET keys == { get_feedback(g, possible_answers[i]) : i \in DOMAIN possible_answers }
        buckets == [f \in keys |->
                      Cardinality({ i \in DOMAIN possible_answers :
                                      get_feedback(g, possible_answers[i]) = f })]
    IN  0 - SelfPowerProduct(buckets)

(* the loop with `e >= best_entropy` as its test *)
RECURSIVE best_loop_ties(_, _, _, _, _)
best_loop_ties(aw, possible_answers, i, best_word, best_entropy) ==
    IF i > Len(aw) THEN [word |-> best_word, entropy |-> best_entropy]
    ELSE LET g == aw[i]
             e == entropy_for_guess(g, possible_answers)
         IN  IF e >= best_entropy
             THEN best_loop_ties(aw, possible_answers, i + 1, g, e)
             ELSE best_loop_ties(aw, possible_answers, i + 1, best_word, best_entropy)

(* solver.py best_entropy_guess: the loop over allowed_words *)
RECURSIVE best_loop(_, _, _, _, _)
best_loop(aw, possible_answers, i, best_word, best_entropy) ==
    IF i > Len(aw) THEN [word |-> best_word, entropy |-> best_entropy]
    ELSE LET g == aw[i]
             e == entropy_for_guess(g, possible_answers)
         IN  IF e > best_entropy \/ (e = best_entropy /\ g \in Range(possible_answers))
             THEN best_loop(aw, possible_answers, i + 1, g, e)
             ELSE best_loop(aw, possible_answers, i + 1, best_word, best_entropy)

best_entropy_guess(aw, possible_answers) ==
    best_loop(aw, possible_answers, 1, NoWord, MinusOne(Len(possible_answers)))

(* simulate_wordle.py: entropy of guess index gi over remaining_idx, from
   np.bincount of the table row *)
sim_entropy(pw, gi, remaining_idx) ==
    LET keys == { feedback_table(pw, gi, remaining_idx[k]) : k \in DOMAIN remaining_idx }
        counts == [c \in keys |->
                     Cardinality({ k \in DOMAIN remaining_idx :
                                     feedback_table(pw, gi, remaining_idx[k]) = c })]
    IN  0 - SelfPowerProduct(counts)

(* simulate_wordle.py best_entropy_guess: the loop over remaining_idx *)
RECURSIVE sim_best_loop(_, _, _, _, _)
sim_best_loop(pw, remaining_idx, k, best_g, best_e) ==
    IF k > Len(remaining_idx) THEN best_g
    ELSE LET gi == remaining_idx[k]
             e == sim_entropy(pw, gi, remaining_idx)
         IN  IF e > best_e
             THEN sim_best_loop(pw, remaining_idx, k + 1, gi, e)
             ELSE sim_best_loop(pw, remaining_idx, k + 1, best_g, best_e)

sim_best_entropy_guess(pw, remaining_idx) ==
    sim_best_loop(pw, remaining_idx, 1, NoIndex, MinusOne(Len(remaining_idx)))

(* the filter with != in place of == *)
sim_filter_not(pw, remaining_idx, gi, c) ==
    LET keep(r) == feedback_table(pw, gi, r) # c
    IN  SelectSeq(remaining_idx, keep)

(* remaining[feedback_table[gi, remaining] == fb] *)
sim_filter(pw, remaining_idx, gi, c) ==
    LET keep(r) == feedback_table(pw, gi, r) = c
    IN  SelectSeq(remaining_idx, keep)

-----------------------------------------------------------------------------
(* The record of a call of best_entropy_guess *)

Called(allowed, cands, ret) ==
    [made |-> TRUE, allowed |-> allowed, cands |-> cands, ret |-> ret]

GuiIdle ==
    /\ allowed_words = << >>
    /\ words = << >>
    /\ auto = FALSE
    /\ pending = 0
    /\ outcome = "none"
    /\ call = NoCall

SimIdle ==
    /\ ai = 0
    /\ remaining = << >>
    /\ guesses = 0
    /\ game_feedbacks = << >>
    /\ game_words = << >>
    /\ results = << >>
    /\ pc = "none"

UnitIdle ==
    /\ guess = NoWord
    /\ answer = NoWord
    /\ fb = NoPattern
    /\ code = NoCode
    /\ fb2 = NoPattern
    /\ code2 = NoCode
    /\ step = "none"

-----------------------------------------------------------------------------
(* simulate_wordle.py *)

fixed_first_guess_idx(pw) == Min({ i \in DOMAIN pw : pw[i] = RAISE })

SimInit ==
    /\ prog = "simulate"
    /\ possible_words \in ListsUpTo(Dict, MaxSimAnswers)
    /\ RAISE \in Range(possible_words)
    /\ ai = 1
    /\ remaining = << >>
    /\ guesses = 0
    /\ game_feedbacks = << >>
    /\ game_words = << >>
    /\ results = << >>
    /\ pc = "for"
    /\ GuiIdle
    /\ UnitIdle

(* for ai, answer in enumerate(possible_words): the head of one game *)
StartGame ==
    /\ prog = "simulate"
    /\ pc = "for"
    /\ remaining' = [i \in 1..Len(possible_words) |-> i]
    /\ guesses' = 0
    /\ game_feedbacks' = << >>
    /\ game_words' = << >>
    /\ pc' = "while"
    /\ UNCHANGED << prog, possible_words, ai, results, call, guiVars, unitVars >>

(* if gi == ai or guesses >= MAX_GUESSES: break, tested with 7 rounds allowed *)
LoopEndsLate(gi, n) == gi = ai \/ n > MAX_GUESSES

(* if gi == ai or guesses >= MAX_GUESSES: break *)
LoopEnds(gi, n) == gi = ai \/ n >= MAX_GUESSES

(* one iteration of `while True` *)
Round ==
    /\ prog = "simulate"
    /\ pc = "while"
    /\ LET first == guesses + 1 = 1
           gi == IF first THEN fixed_first_guess_idx(possible_words)
                 ELSE sim_best_entropy_guess(possible_words, remaining)
           c == feedback_table(possible_words, gi, ai)
       IN  /\ guesses' = guesses + 1
           /\ call' = IF first THEN call ELSE Called(remaining, remaining, gi)
           /\ game_feedbacks' = Append(game_feedbacks, fb_list(c))
           /\ game_words' = Append(game_words, possible_words[gi])
           /\ IF LoopEnds(gi, guesses + 1)
              THEN /\ pc' = "break"
                   /\ remaining' = remaining
              ELSE /\ pc' = "while"
                   /\ remaining' = sim_filter(possible_words, remaining, gi, c)
    /\ UNCHANGED << prog, possible_words, ai, results, allowed_words, words, auto,
                    pending, outcome, unitVars >>

(* after the loop: results.append(guesses); the for loop moves on *)
EndGame ==
    /\ prog = "simulate"
    /\ pc = "break"
    /\ results' = Append(results, guesses)
    /\ IF ai < Len(possible_words)
       THEN /\ ai' = ai + 1
            /\ pc' = "for"
       ELSE /\ ai' = ai
            /\ pc' = "done"
    /\ UNCHANGED << prog, possible_words, remaining, guesses, game_feedbacks,
                    game_words, call, guiVars, unitVars >>

SimNext == StartGame \/ Round \/ EndGame

SimSpec == SimInit /\ [][SimNext]_vars

SimFairSpec == SimSpec /\ WF_vars(SimNext)

-----------------------------------------------------------------------------
(* solver.py: WordleGUI *)

(* What the user can type into the entry before pressing Submit *)
EntryTexts == GuiDict \cup { TooShort }

(* What the user can click onto the tiles before pressing Submit with entry
   text g: the feedback g gets from some word, or a pattern it gets from no
   word.  The candidates are words of GuiDict, so every pattern g gets from
   no word of GuiDict filters them as the second does. *)
TileStates(g) ==
    IF Len(g) # WordLen THEN { AllCorrect }
    ELSE { get_feedback(g, w) : w \in GuiDict } \cup { << 1, 1, 1, 1, 1 >> }

(* best_entropy_guess(self.words), as refresh, autoplay and __init__ call it *)
Suggest(aw, ws) == Called(aw, ws, best_entropy_guess(aw, ws).word)

GuiInit ==
    /\ prog = "solver"
    /\ possible_words \in ListsUpTo(GuiDict, MaxAnswers)
    /\ allowed_words \in ListsUpTo(GuiDict, MaxAllowed)
    /\ words = possible_words
    /\ auto = FALSE
    /\ pending = 0
    /\ outcome = "none"
    /\ call = Suggest(allowed_words, words)
    /\ SimIdle
    /\ UnitIdle

(* submit: messagebox.showerror("Error", "Invalid guess"); return *)
InvalidGuess ==
    /\ outcome' = "invalid"
    /\ UNCHANGED << words, auto, pending, call >>

(* submit: messagebox.showinfo("Solved", ...); self.auto = False; return *)
Solved ==
    /\ outcome' = "solved"
    /\ auto' = FALSE
    /\ UNCHANGED << words, pending, call >>

(* submit's empty-list branch without `self.auto = False` *)
NoWordsLeftKeepsAuto ==
    /\ outcome' = "nowords"
    /\ UNCHANGED << auto, pending, call >>

(* submit: messagebox.showerror("Error", "No words left"); self.auto = False; return *)
NoWordsLeft ==
    /\ outcome' = "nowords"
    /\ auto' = FALSE
    /\ UNCHANGED << pending, call >>

(* submit: self.refresh(), then root.after(300, self.autoplay) when auto is on *)
RefreshAndSchedule(filtered) ==
    /\ outcome' = "none"
    /\ call' = Suggest(allowed_words, filtered)
    /\ auto' = auto
    /\ auto => pending < MaxPending
    /\ pending' = IF auto THEN pending + 1 ELSE pending

(* WordleGUI.submit, with the entry text g and the tile states f *)
Submit(g, f) ==
    /\ prog = "solver"
    /\ IF Len(g) # WordLen \/ g \notin Range(allowed_words)
       THEN InvalidGuess
       ELSE IF f = AllCorrect
       THEN Solved
       ELSE LET filtered == filter_words(words, g, f)
            IN  /\ words' = filtered
                /\ IF filtered = << >>
                   THEN NoWordsLeft
                   ELSE RefreshAndSchedule(filtered)
    /\ UNCHANGED << prog, possible_words, allowed_words, simVars, unitVars >>

SubmitAny == \E g \in EntryTexts : \E f \in TileStates(g) : Submit(g, f)

(* WordleGUI.autoplay run by the Tk timer *)
Autoplay ==
    /\ prog = "solver"
    /\ pending > 0
    /\ pending' = pending - 1
    /\ call' = Suggest(allowed_words, words)
    /\ outcome' = "none"
    /\ UNCHANGED << prog, possible_words, allowed_words, words, auto, simVars, unitVars >>

(* WordleGUI.toggle_auto *)
ToggleAuto ==
    /\ prog = "solver"
    /\ auto' = ~auto
    /\ call' = IF ~auto THEN Suggest(allowed_words, words) ELSE call
    /\ outcome' = "none"
    /\ UNCHANGED << prog, possible_words, allowed_words, words, pending, simVars, unitVars >>

(* WordleGUI.reset *)
Reset ==
    /\ prog = "solver"
    /\ words' = possible_words
    /\ auto' = FALSE
    /\ call' = Suggest(allowed_words, possible_words)
    /\ outcome' = "none"
    /\ UNCHANGED << prog, possible_words, allowed_words, pending, simVars, unitVars >>

GuiNext == SubmitAny \/ Autoplay \/ ToggleAuto \/ Reset

GuiSpec == GuiInit /\ [][GuiNext]_vars

-----------------------------------------------------------------------------
(* Both scripts *)

Init == GuiInit \/ SimInit

Next == GuiNext \/ SimNext

Spec == Init /\ [][Next]_vars

-----------------------------------------------------------------------------
(* get_feedback applied to a pair of words *)

FeedbackInit ==
    /\ prog = "get_feedback"
    /\ guess \in UnitWords
    /\ answer \in UnitWords
    /\ fb = NoPattern
    /\ code = NoCode
    /\ fb2 = NoPattern
    /\ code2 = NoCode
    /\ step = "args"
    /\ possible_words = << >>
    /\ GuiIdle
    /\ SimIdle

Evaluate ==
    /\ prog = "get_feedback"
    /\ step = "args"
    /\ fb' = get_feedback(guess, answer)
    /\ step' = "evaluated"
    /\ UNCHANGED << prog, possible_words, guiVars, simVars, guess, answer, code,
                    fb2, code2 >>

FeedbackSpec == FeedbackInit /\ [][Evaluate]_vars

-----------------------------------------------------------------------------
(* feedback_to_int into a table cell, and the decoding of a cell, applied to
   a pattern and to a code *)

CodecInit ==
    /\ prog = "codec"
    /\ \/ /\ step = "pattern"
          /\ fb \in Patterns
          /\ code = NoCode
       \/ /\ step = "code"
          /\ fb = NoPattern
          /\ code \in 0..(N_feedback - 1)
    /\ fb2 = NoPattern
    /\ code2 = NoCode
    /\ guess = NoWord
    /\ answer = NoWord
    /\ possible_words = << >>
    /\ GuiIdle
    /\ SimIdle

(* feedback_table[gi, ai] = feedback_to_int(...) *)
Encode ==
    /\ prog = "codec"
    /\ step \in { "pattern", "decoded" }
    /\ IF step = "pattern"
       THEN /\ code' = feedback_to_int(fb) % UInt8
            /\ step' = "encoded"
            /\ UNCHANGED code2
       ELSE /\ code2' = feedback_to_int(fb2) % UInt8
            /\ step' = "recoded"
            /\ UNCHANGED code
    /\ UNCHANGED << prog, possible_words, guiVars, simVars, guess, answer, fb, fb2 >>

(* fb_list = [(fb // 3**(4-i)) % 3 for i in range(5)] *)
Decode ==
    /\ prog = "codec"
    /\ step \in { "code", "encoded" }
    /\ fb2' = fb_list(code)
    /\ step' = IF step = "code" THEN "decoded" ELSE "redecoded"
    /\ UNCHANGED << prog, possible_words, guiVars, simVars, guess, answer, fb, code,
                    code2 >>

CodecNext == Encode \/ Decode

CodecSpec == CodecInit /\ [][CodecNext]_vars

-----------------------------------------------------------------------------
(* Properties of get_feedback *)

Occurrences(w, x) == Cardinality({ i \in Pos : w[i] = x })

Marked(g, f, x) == Cardinality({ i \in Pos : g[i] = x /\ f[i] \in { 1, 2 } })

(* C2: for every pair (guess, answer) and every letter x, the positions of
   the guess holding x that are marked Correct or Present number at most the
   occurrences of x in the answer; a position is marked Correct exactly when
   guess and answer agree there, so the Correct positions take their letter
   before any Present is given. *)
C2_FeedbackWithinLetterCount ==
    step = "evaluated" =>
        /\ \A x \in Alphabet : Marked(guess, fb, x) <= Occurrences(answer, x)
        /\ \A i \in Pos : (fb[i] = 2) <=> (guess[i] = answer[i])
        /\ \A x \in Alphabet :
               Cardinality({ i \in Pos : guess[i] = x /\ fb[i] = 1 })
                   <= Occurrences(answer, x)
                        - Cardinality({ i \in Pos : guess[i] = x /\ fb[i] = 2 })

(* A guess that repeats a letter: one copy Correct, one Present, one Absent *)
C2_Witness ==
    /\ step = "evaluated"
    /\ \E i, j, k \in Pos :
          /\ guess[i] = guess[j] /\ guess[j] = guess[k]
          /\ fb[i] = 2 /\ fb[j] = 1 /\ fb[k] = 0

-----------------------------------------------------------------------------
(* Properties of the codec *)

(* C9: decoding an encoded pattern gives the pattern back, encoding a decoded
   code gives the code back, and the encoded value is below 256, so that the
   uint8 cell holds feedback_to_int's value itself. *)
C9_CodecRoundTrip ==
    /\ step = "redecoded" => fb2 = fb
    /\ step = "recoded" => code2 = code
    /\ step \in { "encoded", "redecoded" } =>
          /\ code = feedback_to_int(fb)
          /\ code \in 0..(N_feedback - 1)
          /\ code < UInt8
    /\ step \in { "decoded", "recoded" } => fb2 \in Patterns

(* a pattern with unequal digits, encoded and decoded again *)
C9_Witness ==
    /\ step = "redecoded"
    /\ fb = << 2, 0, 1, 0, 0 >>
    /\ code = 171
    /\ fb2 = fb

-----------------------------------------------------------------------------
(* Properties of best_entropy_guess *)

Max(S) == CHOOSE x \in S : \A y \in S : x >= y

(* positions of aw whose word has the greatest entropy over cands *)
TopOfAllowed(aw, cands) ==
    { i \in DOMAIN aw :
        \A j \in DOMAIN aw : entropy_for_guess(aw[i], cands) >= entropy_for_guess(aw[j], cands) }

(* positions of the index list whose guess has the greatest entropy *)
TopOfRemaining(pw, idx) ==
    { k \in DOMAIN idx :
        \A j \in DOMAIN idx : sim_entropy(pw, idx[k], idx) >= sim_entropy(pw, idx[j], idx) }

TopMembers(aw, cands) == { i \in TopOfAllowed(aw, cands) : aw[i] \in Range(cands) }

(* the priority as stated: greatest entropy, then membership, then first *)
FirstByPriority(aw, cands) ==
    IF TopMembers(aw, cands) # {} THEN aw[Min(TopMembers(aw, cands))]
    ELSE aw[Min(TopOfAllowed(aw, cands))]

(* the priority of solver.py: greatest entropy, then membership, then the
   last member, or the first word when no member has the greatest entropy *)
LastMemberByPriority(aw, cands) ==
    IF TopMembers(aw, cands) # {} THEN aw[Max(TopMembers(aw, cands))]
    ELSE aw[Min(TopOfAllowed(aw, cands))]

SimulatePicksFirst ==
    (prog = "simulate" /\ call.made) =>
        call.ret = call.cands[Min(TopOfRemaining(possible_words, call.cands))]

(* C1 as stated: every call of best_entropy_guess returns a word of greatest
   entropy, a candidate before a non-candidate on a tie, and the first in the
   order of the allowed list among those still tied. *)
C1_FirstTiedWordWins ==
    /\ (prog = "solver" /\ call.made) =>
           call.ret = FirstByPriority(call.allowed, call.cands)
    /\ SimulatePicksFirst

(* C1 as amended: as stated, except that solver.py returns the last of the
   tied words that are candidates (the first tied word when none of them is a
   candidate); simulate_wordle.py returns the first tied word. *)
C1_LastTiedMemberWins ==
    /\ (prog = "solver" /\ call.made) =>
           call.ret = LastMemberByPriority(call.allowed, call.cands)
    /\ SimulatePicksFirst

(* solver.py returned the second of two tied candidates *)
C1_Witness ==
    /\ prog = "solver"
    /\ call.made
    /\ Cardinality(TopMembers(call.allowed, call.cands)) = 2
    /\ call.allowed[1] # call.allowed[2]
    /\ call.ret = call.allowed[2]

-----------------------------------------------------------------------------
(* Properties of the filters *)

Count(ws, w) == Cardinality({ i \in DOMAIN ws : ws[i] = w })

(* out holds the words of in that give feedback f to guess g, as often as in does *)
ExactlyConsistent(out, in, g, f) ==
    /\ Range(out) = { w \in Range(in) : get_feedback(g, w) = f }
    /\ \A w \in Range(in) :
          Count(out, w) = IF get_feedback(g, w) = f THEN Count(in, w) ELSE 0

ValidGuess(g) == Len(g) = WordLen /\ g \in Range(allowed_words)

Last(s) == s[Len(s)]

(* C3: a submit that filters replaces words by exactly the words consistent
   with the guess and the feedback, and a round of the simulation that goes on
   replaces remaining by exactly the indices whose word gives the observed
   pattern; the list filtered from (possible_words) stays as it was. *)
C3_FilterExact ==
    [][ /\ \A g \in EntryTexts : \A f \in TileStates(g) :
              (ValidGuess(g) /\ f # AllCorrect /\ Submit(g, f)) =>
                  /\ ExactlyConsistent(words', words, g, f)
                  /\ possible_words' = possible_words
        /\ (prog = "simulate" /\ pc = "while" /\ pc' = "while") =>
              /\ remaining' =
                    SelectSeq(remaining,
                              LAMBDA r : get_feedback(Last(game_words'), possible_words[r])
                                            = Last(game_feedbacks'))
              /\ possible_words' = possible_words
      ]_vars

(* the table filter has kept two of four indices *)
C3_Witness ==
    /\ prog = "simulate"
    /\ pc = "while"
    /\ guesses = 1
    /\ Len(possible_words) = 4
    /\ Len(remaining) = 2

-----------------------------------------------------------------------------
(* Properties of the game loop *)

(* C4 as stated, for the simulation: a round with all-Correct feedback ends
   the game, and a game that goes on after a round has seen other feedback and
   is below the round limit; a game ends on all-Correct or at round 6. *)
C4_AllCorrectEndsGame ==
    prog = "simulate" =>
        /\ (pc = "while" /\ guesses >= 1) =>
               /\ Last(game_feedbacks) # AllCorrect
               /\ guesses < MAX_GUESSES
        /\ pc = "break" =>
               \/ Last(game_feedbacks) = AllCorrect
               \/ guesses = MAX_GUESSES

(* filtering by the feedback of any true answer a leaves fewer candidates *)
ShrinksSolver(aw, cands, g) ==
    \A a \in Range(cands) :
        \/ g = a
        \/ Range(cands) = { a }
        \/ Len(filter_words(cands, g, get_feedback(g, a))) < Len(cands)

ShrinksSimulate(pw, idx, gi) ==
    \A a \in Range(idx) :
        \/ pw[gi] = pw[a]
        \/ { pw[r] : r \in Range(idx) } = { pw[a] }
        \/ Len(sim_filter(pw, idx, gi, feedback_table(pw, gi, a))) < Len(idx)

(* C5 as stated: the guess returned for candidates C leaves, for every true
   answer a in C, fewer candidates than C, unless it is a or C holds only a. *)
C5_GuessShrinksCandidates ==
    /\ (prog = "solver" /\ call.made) =>
           ShrinksSolver(call.allowed, call.cands, call.ret)
    /\ (prog = "simulate" /\ call.made) =>
           ShrinksSimulate(possible_words, call.cands, call.ret)

(* some allowed word gives two candidates different feedback *)
Separates(aw, cands) ==
    \E g \in Range(aw) : \E a, b \in Range(cands) : get_feedback(g, a) # get_feedback(g, b)

(* C5 as amended: as stated, provided some word of the allowed list gives two
   of the candidates different feedback (which is so whenever the allowed list
   holds a candidate and C holds two different words). *)
C5_SeparatingGuessShrinks ==
    /\ (prog = "solver" /\ call.made /\ Separates(call.allowed, call.cands)) =>
           ShrinksSolver(call.allowed, call.cands, call.ret)
    /\ (prog = "simulate" /\ call.made) =>
           ShrinksSimulate(possible_words, call.cands, call.ret)

(* a guess from outside the candidates that splits two different candidates *)
C5_Witness ==
    /\ prog = "solver"
    /\ call.made
    /\ Cardinality(Range(call.cands)) = 2
    /\ call.ret \notin Range(call.cands)
    /\ Separates(call.allowed, call.cands)
    /\ \A a \in Range(call.cands) :
          Len(filter_words(call.cands, call.ret, get_feedback(call.ret, a))) = 1

(* C6: a submit of a valid guess with feedback other than all-Correct that
   leaves no word shows the error, switches auto off, and reports neither
   Solved nor an exhausted game. *)
C6_EmptyFilterIsError ==
    [][ \A g \in EntryTexts : \A f \in TileStates(g) :
           ( /\ ValidGuess(g)
             /\ f # AllCorrect
             /\ filter_words(words, g, f) = << >>
             /\ Submit(g, f) ) =>
               /\ outcome' = "nowords"
               /\ auto' = FALSE
               /\ words' = << >>
               /\ outcome' \notin { "solved", "exhausted", "none" }
      ]_vars

(* the error was shown while an autoplay scheduled under auto was pending *)
C6_Witness ==
    /\ prog = "solver"
    /\ outcome = "nowords"
    /\ words = << >>
    /\ auto = FALSE
    /\ pending > 0

(* C7 as stated: best_entropy_guess is never called with no candidates. *)
C7_NeverCalledOnEmpty ==
    call.made => call.cands # << >>

(* the record of the game in progress and of the games finished *)
GameRecordOk ==
    /\ pc \in { "while", "break" } =>
          /\ Len(game_feedbacks) = guesses
          /\ Len(game_words) = guesses
    /\ pc = "while" => guesses < MAX_GUESSES
    /\ pc = "break" =>
          /\ guesses \in 1..MAX_GUESSES
          /\ Last(game_feedbacks) = AllCorrect \/ guesses = MAX_GUESSES
    /\ \A i \in DOMAIN results : results[i] \in 1..MAX_GUESSES

(* C8: every game of the simulation ends after 1 to 6 rounds with as many
   (guess, feedback) pairs as rounds, on all-Correct feedback or at round 6,
   and the script reaches its end with one result for each answer. *)
C8_GamesTerminate ==
    /\ []GameRecordOk
    /\ <>(pc = "done" /\ Len(results) = Len(possible_words))

(* a finished run with a game of one round and a game of six *)
C8_Witness ==
    /\ pc = "done"
    /\ \E i, j \in DOMAIN results : results[i] = 1 /\ results[j] = MAX_GUESSES

(* the candidates at the start of a round *)
RemainingOk ==
    pc = "while" =>
        /\ Range(remaining) \subseteq DOMAIN possible_words
        /\ ai \in Range(remaining)
        /\ remaining # << >>
        /\ \A r \in DOMAIN game_words : \A k \in 1..(r - 1) :
              get_feedback(game_words[k], game_words[r]) = game_feedbacks[k]

(* C10: at the start of every round remaining holds indices of
   possible_words, among them the true answer's, so it is not empty; it never
   grows from one round to the next; and every guess is consistent with the
   feedback of the rounds before it. *)
C10_RemainingHoldsAnswer ==
    /\ []RemainingOk
    /\ [][(pc = "while" /\ pc' = "while") => Len(remaining') <= Len(remaining)]_vars

(* the third round starts with fewer candidates than answers *)
C10_Witness ==
    /\ pc = "while"
    /\ guesses = 2
    /\ Len(remaining) < Len(possible_words)
    /\ Len(remaining) > 1
    /\ ai \in Range(remaining)

=============================================================================
